---- MODULE Spec2Model ----
(***************************************************************************)
(* Model of set_nasa_apod_wallpaper.py: the ImageListing record, its       *)
(* save_name property, get_image_listing, get_image and main.               *)
(*                                                                         *)
(* Representation.  Text that the program takes apart (date, hdurl,       *)
(* save_name, file suffixes) is a sequence of one-character strings, so    *)
(* that str.split and the f-string concatenation are computed.  Text that  *)
(* the program only compares or copies (media_type, title, explanation,   *)
(* printed lines) is a TLA+ string.  A JSON object is a function whose     *)
(* domain is the set of keys present.                                      *)
(***************************************************************************)
EXTENDS Integers, Sequences, FiniteSets, TLC

\* ------------------------------------------------------------------------
\* Bounds
\* ------------------------------------------------------------------------
MaxRuns == 2        \* invocations of main in one behaviour
MaxUrlLen == 3      \* length of hdurl in the save_name unit specification
MaxDateLen == 2     \* length of date in the save_name unit specification

Procs == {1, 2}     \* invocations that may overlap in the concurrent spec

\* ------------------------------------------------------------------------
\* Strings
\* ------------------------------------------------------------------------
RECURSIVE SeqsUpTo(_, _)
SeqsUpTo(S, n) ==
    IF n = 0 THEN {<<>>}
    ELSE LET shorter == SeqsUpTo(S, n - 1)
         IN  shorter \cup {Append(s, c) : s \in {t \in shorter : Len(t) = n - 1}, c \in S}

\* str.split(sep) for a one-character separator: always at least one piece.
RECURSIVE Split(_, _)
Split(s, sep) ==
    IF \E i \in 1..Len(s) : s[i] = sep
    THEN LET i == CHOOSE k \in 1..Len(s) :
                      /\ s[k] = sep
                      /\ \A j \in 1..(k - 1) : s[j] # sep
         IN  <<SubSeq(s, 1, i - 1)>> \o Split(SubSeq(s, i + 1, Len(s)), sep)
    ELSE <<s>>

\* seq[-1]
LastOf(seq) == seq[Len(seq)]

\* dict.get(key, default)
Get(json, key, default) == IF key \in DOMAIN json THEN json[key] ELSE default

\* ------------------------------------------------------------------------
\* ImageListing
\* ------------------------------------------------------------------------
from_api_resp_json(json) ==
    [date        |-> Get(json, "date", <<>>),
     explanation |-> Get(json, "explanation", ""),
     media_type  |-> Get(json, "media_type", ""),
     title       |-> Get(json, "title", ""),
     url         |-> Get(json, "hdurl", <<>>)]

ImageListing(contents) == from_api_resp_json(contents)

\* Variant: anything that is not a video counts as an image.
is_image_lax(l) == l.media_type # "video"

is_image(l) == l.media_type = "image"

\* Variant: the first piece of the url, url.split("/")[0].
save_name_first(l) ==
    LET remote_file_name == Split(l.url, "/")[1]
    IN  l.date \o <<"_">> \o remote_file_name

\* Variant: nothing at all when there is no url.
save_name_blank(l) ==
    IF l.url = <<>> THEN <<>>
    ELSE l.date \o <<"_">> \o LastOf(Split(l.url, "/"))

save_name(l) ==
    LET remote_file_name == LastOf(Split(l.url, "/"))
    IN  l.date \o <<"_">> \o remote_file_name

\* The default-constructed listing, ImageListing().
EmptyListing == ImageListing(<<>>)


\* ------------------------------------------------------------------------
\* Inputs of the pipeline specifications
\* ------------------------------------------------------------------------
\* "http://x/y/pic.jpg"-shaped: last path segment p.j, extension j.
UrlPic == <<"h", "/", "y", "/", "p", ".", "j">>
\* A second picture on the same host.
UrlQ == <<"h", "/", "q", ".", "j">>
\* No extension in the last segment: the text after the last "." is "x/p".
UrlNoExt == <<"h", ".", "x", "/", "p">>

SampleUrls == {UrlPic, UrlQ, UrlNoExt}
SampleDates == {<<"1">>, <<"2">>}
MediaTypes == {"image", "video"}
ErrorCodes == {"API_KEY_INVALID"}

\* A metadata body; mt and hdurl are sets of at most one value (empty: key absent).
ApodBody(date, mt, hdurl) ==
    LET keys == {"date", "explanation", "title"}
                  \cup (IF mt = {} THEN {} ELSE {"media_type"})
                  \cup (IF hdurl = {} THEN {} ELSE {"hdurl"})
    IN  [k \in keys |->
            CASE k = "date" -> date
              [] k = "explanation" -> "E"
              [] k = "title" -> "T"
              [] k = "media_type" -> (CHOOSE m \in mt : TRUE)
              [] k = "hdurl" -> (CHOOSE u \in hdurl : TRUE)]

Optional(S) == {{}} \cup {{x} : x \in S}

ListingBodies ==
    {ApodBody(d, mt, u) : d \in SampleDates, mt \in Optional(MediaTypes),
                          u \in Optional(SampleUrls)}

\* Bodies with an "error" key, with and without error.code.
ErrorBodies ==
    {[error |-> [code |-> c]] : c \in ErrorCodes} \cup {[error |-> <<>>]}

\* What requests.get(api_url) can do: raise, or return a response with a body.
MetaOutcomes ==
    {[raised |-> TRUE, body |-> <<>>]}
      \cup {[raised |-> FALSE, body |-> b] : b \in ListingBodies \cup ErrorBodies}

\* Before the request is made.
NoResponse == [raised |-> FALSE, body |-> <<>>]

ApiKeys == {"None", "KEY"}

\* ------------------------------------------------------------------------
\* State
\* ------------------------------------------------------------------------
VARIABLES
    scriptIsFile,     \* ./setWallpaper.sh is a file
    linksDirExists,   \* ~/Pictures/APOD exists (the program never creates it)
    dirs,             \* save names d for which ~/APOD/d exists
    files,            \* regular files under ~/APOD: [dir, stem, suffix]
    links,            \* symlinks in ~/Pictures/APOD: [name, target]
    runs,             \* invocations of main started so far
    pc,               \* per invocation: position in main
    apiKey,           \* per invocation: the api_key argument
    resp,             \* per invocation: what requests.get(api_url) did
    listing,          \* per invocation: img_listing
    saveName,         \* per invocation: img_listing.save_name, as used in both paths
    out,              \* per invocation: lines printed
    exitCode,         \* per invocation: process exit status, -1 while running
    raised,           \* per invocation: the unhandled exception, "" if none
    calls             \* per invocation: external effects, in order

vars == <<scriptIsFile, linksDirExists, dirs, files, links, runs, pc, apiKey,
          resp, listing, saveName, out, exitCode, raised, calls>>

env == <<scriptIsFile, linksDirExists>>
fs == <<dirs, files, links>>

Stopped == {"idle", "exited", "raised", "done"}

\* Paths
ImagePath(d, suffix) == [dir |-> d, stem |-> "image", suffix |-> suffix]
DescriptionPath(d) == [dir |-> d, stem |-> "description", suffix |-> <<".", "t">>]

\* Whether the symlink named d resolves to an existing file.
Resolves(d) == \E l \in links : l.name = d /\ l.target \in files

\* Path.with_suffix raises ValueError when the suffix holds a path separator
\* (the inputs here never give the lone ".").
ValidSuffix(suffix) == \A i \in 1..Len(suffix) : suffix[i] # "/"

\* "." + url.split(".")[-1]
img_file_extension(l) == <<".">> \o LastOf(Split(l.url, "."))

\* ------------------------------------------------------------------------
\* Steps shared by the actions
\* ------------------------------------------------------------------------
Goto(p, label) == pc' = [pc EXCEPT ![p] = label]
Say(p, line) == out' = [out EXCEPT ![p] = Append(@, line)]
Call(p, c) == calls' = [calls EXCEPT ![p] = Append(@, c)]

\* print(line); exit(1)
Fatal(p, line) ==
    /\ Say(p, line)
    /\ Goto(p, "exited")
    /\ exitCode' = [exitCode EXCEPT ![p] = 1]

\* An exception nobody catches: traceback, exit status 1.
Unhandled(p, e) ==
    /\ Goto(p, "raised")
    /\ raised' = [raised EXCEPT ![p] = e]
    /\ exitCode' = [exitCode EXCEPT ![p] = 1]

Init ==
    /\ scriptIsFile \in BOOLEAN
    /\ linksDirExists \in BOOLEAN
    /\ dirs = {}
    /\ files = {}
    /\ links = {}
    /\ runs = 0
    /\ pc = [p \in Procs |-> "idle"]
    /\ apiKey = [p \in Procs |-> "None"]
    /\ resp = [p \in Procs |-> NoResponse]
    /\ listing = [p \in Procs |-> EmptyListing]
    /\ saveName = [p \in Procs |-> <<>>]
    /\ out = [p \in Procs |-> <<>>]
    /\ exitCode = [p \in Procs |-> -1]
    /\ raised = [p \in Procs |-> ""]
    /\ calls = [p \in Procs |-> <<>>]


\* ------------------------------------------------------------------------
\* main, one action per step
\* ------------------------------------------------------------------------
\* A new invocation: main(api_key), with fresh locals.
Start(p) ==
    /\ pc[p] \in Stopped
    /\ runs < MaxRuns
    /\ runs' = runs + 1
    /\ \E k \in ApiKeys : apiKey' = [apiKey EXCEPT ![p] = k]
    /\ Goto(p, "check_key")
    /\ resp' = [resp EXCEPT ![p] = NoResponse]
    /\ listing' = [listing EXCEPT ![p] = EmptyListing]
    /\ saveName' = [saveName EXCEPT ![p] = <<>>]
    /\ out' = [out EXCEPT ![p] = <<>>]
    /\ exitCode' = [exitCode EXCEPT ![p] = -1]
    /\ raised' = [raised EXCEPT ![p] = ""]
    /\ calls' = [calls EXCEPT ![p] = <<>>]
    /\ UNCHANGED <<env, fs>>

\* if api_key is None: print; exit(1)
CheckApiKey(p) ==
    /\ pc[p] = "check_key"
    /\ IF apiKey[p] = "None"
       THEN Fatal(p, <<"No API key provided">>)
       ELSE Goto(p, "check_script") /\ UNCHANGED <<out, exitCode>>
    /\ UNCHANGED <<env, fs, runs, apiKey, resp, listing, saveName, raised, calls>>

\* Variant: the script is not looked for before the request.
CheckScript_skipped(p) ==
    /\ pc[p] = "check_script"
    /\ Say(p, <<"Getting daily-image listing">>)
    /\ Goto(p, "get_listing")
    /\ UNCHANGED <<env, fs, runs, apiKey, resp, listing, saveName, raised, calls, exitCode>>

\* if not wallpaper_script.is_file(): print; exit(1)
CheckScript(p) ==
    /\ pc[p] = "check_script"
    /\ IF ~scriptIsFile
       THEN Fatal(p, <<"Wallpaper setting script not found">>)
       ELSE /\ Say(p, <<"Getting daily-image listing">>)
            /\ Goto(p, "get_listing")
            /\ UNCHANGED exitCode
    /\ UNCHANGED <<env, fs, runs, apiKey, resp, listing, saveName, raised, calls>>

\* Variant: the body is not searched for an "error" key.
ListingError_unchecked(r) == IF r.raised THEN <<"ConnectionError">> ELSE <<>>

\* The message of the exception get_image_listing raises for this outcome,
\* <<>> if it returns normally.
ListingError(r) ==
    IF r.raised THEN <<"ConnectionError">>
    ELSE IF "error" \in DOMAIN r.body
    THEN IF "code" \in DOMAIN r.body["error"]
         THEN <<"API call was invalid but to the correct endpoint. error returned [",
                r.body["error"]["code"], "]">>
         ELSE <<"'code'">>
    ELSE <<>>

\* try: img_listing = get_image_listing(api_key)  except: print; exit(1)
GetImageListing(p) ==
    /\ pc[p] = "get_listing"
    /\ \E r \in MetaOutcomes :
          /\ resp' = [resp EXCEPT ![p] = r]
          /\ Call(p, [op |-> "GET_APOD", arg |-> apiKey[p]])
          /\ IF ListingError(r) # <<>>
             THEN /\ Fatal(p, <<"Failed to get image listing: ">> \o ListingError(r))
                  /\ UNCHANGED listing
             ELSE /\ listing' = [listing EXCEPT ![p] = ImageListing(r.body)]
                  /\ Say(p, <<"\tTitle: ", ImageListing(r.body).title>>)
                  /\ Goto(p, "check_media")
                  /\ UNCHANGED exitCode
    /\ UNCHANGED <<env, fs, runs, apiKey, saveName, raised>>

\* if not img_listing.is_image: print; exit(1)
CheckIsImage(p) ==
    /\ pc[p] = "check_media"
    /\ IF ~is_image(listing[p])
       THEN Fatal(p, <<"Not an image today">>)
       ELSE /\ Say(p, <<"Downloading image">>)
            /\ Goto(p, "check_exists")
            /\ UNCHANGED exitCode
    /\ UNCHANGED <<env, fs, runs, apiKey, resp, listing, saveName, raised, calls>>

\* Variant: the download branch is taken whatever is on disk.
CheckExists_always_miss(p) ==
    /\ pc[p] = "check_exists"
    /\ saveName' = [saveName EXCEPT ![p] = save_name(listing[p])]
    /\ Goto(p, "mkdir")
    /\ UNCHANGED <<env, fs, runs, apiKey, resp, listing, exitCode, raised, calls, out>>

\* Variant: the test is on the symlink, link_save_location.exists().
CheckExists_link(p) ==
    /\ pc[p] = "check_exists"
    /\ saveName' = [saveName EXCEPT ![p] = save_name(listing[p])]
    /\ IF ~(\E l \in links : l.name = save_name(listing[p]))
       THEN Goto(p, "mkdir") /\ UNCHANGED out
       ELSE /\ Say(p, <<"The image does not need to be downloaded">>)
            /\ Goto(p, "run")
    /\ UNCHANGED <<env, fs, runs, apiKey, resp, listing, exitCode, raised, calls>>

\* img_save_location = ~/APOD / save_name; if not img_save_location.exists()
CheckExists(p) ==
    /\ pc[p] = "check_exists"
    /\ saveName' = [saveName EXCEPT ![p] = save_name(listing[p])]
    /\ IF save_name(listing[p]) \notin dirs
       THEN Goto(p, "mkdir") /\ UNCHANGED out
       ELSE /\ Say(p, <<"The image does not need to be downloaded">>)
            /\ Goto(p, "run")
    /\ UNCHANGED <<env, fs, runs, apiKey, resp, listing, exitCode, raised, calls>>

\* Variant: mkdir(parents=True, exist_ok=True).
Mkdir_exist_ok(p) ==
    /\ pc[p] = "mkdir"
    /\ dirs' = dirs \cup {saveName[p]}
    /\ Call(p, [op |-> "mkdir", arg |-> saveName[p]])
    /\ Goto(p, "get_image")
    /\ UNCHANGED <<env, files, links, runs, apiKey, resp, listing, saveName, out,
                   raised, exitCode>>

\* img_save_location.mkdir(parents=True): FileExistsError if it exists by now
Mkdir(p) ==
    /\ pc[p] = "mkdir"
    /\ IF saveName[p] \in dirs
       THEN Unhandled(p, "FileExistsError") /\ UNCHANGED <<dirs, calls>>
       ELSE /\ dirs' = dirs \cup {saveName[p]}
            /\ Call(p, [op |-> "mkdir", arg |-> saveName[p]])
            /\ Goto(p, "get_image")
            /\ UNCHANGED <<raised, exitCode>>
    /\ UNCHANGED <<env, files, links, runs, apiKey, resp, listing, saveName, out>>

\* img_data = get_image(img_listing): requests.get(url) rejects an empty url
\* before sending anything, and otherwise returns or raises
GetImage(p) ==
    /\ pc[p] = "get_image"
    /\ IF listing[p].url = <<>>
       THEN Unhandled(p, "MissingSchema") /\ UNCHANGED calls
       ELSE /\ Call(p, [op |-> "GET_IMAGE", arg |-> listing[p].url])
            /\ \/ Goto(p, "write_image") /\ UNCHANGED <<raised, exitCode>>
               \/ Unhandled(p, "ConnectionError")
    /\ UNCHANGED <<env, fs, runs, apiKey, resp, listing, saveName, out>>

\* (img_save_location / "image").with_suffix(ext).write_bytes(img_data)
WriteImage(p) ==
    /\ pc[p] = "write_image"
    /\ IF ValidSuffix(img_file_extension(listing[p]))
       THEN /\ files' = files \cup {ImagePath(saveName[p], img_file_extension(listing[p]))}
            /\ Call(p, [op |-> "write_bytes",
                        arg |-> ImagePath(saveName[p], img_file_extension(listing[p]))])
            /\ Goto(p, "write_description")
            /\ UNCHANGED <<raised, exitCode>>
       ELSE Unhandled(p, "ValueError") /\ UNCHANGED <<files, calls>>
    /\ UNCHANGED <<env, dirs, links, runs, apiKey, resp, listing, saveName, out>>

\* (img_save_location / "description.txt").write_text(...)
WriteDescription(p) ==
    /\ pc[p] = "write_description"
    /\ files' = files \cup {DescriptionPath(saveName[p])}
    /\ Call(p, [op |-> "write_text", arg |-> DescriptionPath(saveName[p])])
    /\ Goto(p, "symlink")
    /\ UNCHANGED <<env, dirs, links, runs, apiKey, resp, listing, saveName, out, exitCode, raised>>

\* The link link_save_location.symlink_to(...) makes.
SymlinkMade(p) == [name |-> saveName[p], target |-> ImagePath(saveName[p], <<>>)]

\* link_save_location.symlink_to(img_save_location / "image")
Symlink(p) ==
    /\ pc[p] = "symlink"
    /\ IF ~linksDirExists
       THEN Unhandled(p, "FileNotFoundError") /\ UNCHANGED <<links, calls>>
       ELSE IF \E l \in links : l.name = saveName[p]
       THEN Unhandled(p, "FileExistsError") /\ UNCHANGED <<links, calls>>
       ELSE /\ links' = links \cup {SymlinkMade(p)}
            /\ Call(p, [op |-> "symlink_to", arg |-> SymlinkMade(p)])
            /\ Goto(p, "run")
            /\ UNCHANGED <<raised, exitCode>>
    /\ UNCHANGED <<env, dirs, files, runs, apiKey, resp, listing, saveName, out>>

\* run([wallpaper_script, str(link_save_location)]); falling off main: status 0
RunWallpaper(p) ==
    /\ pc[p] = "run"
    /\ Say(p, <<"Setting wallpaper">>)
    /\ Call(p, [op |-> "run", arg |-> saveName[p]])
    /\ Goto(p, "done")
    /\ exitCode' = [exitCode EXCEPT ![p] = 0]
    /\ UNCHANGED <<env, fs, runs, apiKey, resp, listing, saveName, raised>>

\* The process is stopped from outside (Ctrl-C, kill, power loss) between two
\* steps of the download branch; nothing in main catches it or cleans up.
Interrupted(p) ==
    /\ pc[p] \in {"get_image", "write_image", "write_description", "symlink"}
    /\ Goto(p, "raised")
    /\ raised' = [raised EXCEPT ![p] = "KeyboardInterrupt"]
    /\ exitCode' = [exitCode EXCEPT ![p] = 130]    \* ended by SIGINT
    /\ UNCHANGED <<env, fs, runs, apiKey, resp, listing, saveName, out, calls>>

main(p) ==
    \/ Start(p)
    \/ CheckApiKey(p)
    \/ CheckScript(p)
    \/ GetImageListing(p)
    \/ CheckIsImage(p)
    \/ CheckExists(p)
    \/ Mkdir(p)
    \/ GetImage(p)
    \/ WriteImage(p)
    \/ WriteDescription(p)
    \/ Symlink(p)
    \/ Interrupted(p)
    \/ RunWallpaper(p)

\* One invocation at a time, as the program assumes.
Next == main(1)

Spec == Init /\ [][Next]_vars

\* Invocations that overlap.
NextConc == \E p \in Procs : main(p)

SpecConc == Init /\ [][NextConc]_vars


\* ------------------------------------------------------------------------
\* ImageListing on its own: construct from a body, read save_name
\* ------------------------------------------------------------------------
UrlAlphabet == {"/", ".", "a"}
DateAlphabet == {"1", "-"}

ExampleDate == <<"2", "0", "2", "4", "-", "0", "1", "-", "0", "1">>
ExampleUrl ==
    <<"h", "t", "t", "p", ":", "/", "/", "x", "/", "y", "/", "p", "i", "c", ".", "j", "p", "g">>
ExampleSaveName ==
    <<"2", "0", "2", "4", "-", "0", "1", "-", "0", "1", "_", "p", "i", "c", ".", "j", "p", "g">>

UnitBodies ==
    {ApodBody(d, {"image"}, u) : d \in SeqsUpTo(DateAlphabet, MaxDateLen),
                                 u \in Optional(SeqsUpTo(UrlAlphabet, MaxUrlLen))}
      \cup {ApodBody(ExampleDate, {"image"}, {ExampleUrl})}

InitUnit ==
    /\ scriptIsFile = TRUE
    /\ linksDirExists = TRUE
    /\ dirs = {}
    /\ files = {}
    /\ links = {}
    /\ runs = 0
    /\ pc = [p \in Procs |-> IF p = 1 THEN "unit" ELSE "idle"]
    /\ apiKey = [p \in Procs |-> "None"]
    /\ \E b \in UnitBodies :
          resp = [p \in Procs |-> IF p = 1 THEN [raised |-> FALSE, body |-> b]
                                           ELSE NoResponse]
    /\ listing = [p \in Procs |-> EmptyListing]
    /\ saveName = [p \in Procs |-> <<>>]
    /\ out = [p \in Procs |-> <<>>]
    /\ exitCode = [p \in Procs |-> -1]
    /\ raised = [p \in Procs |-> ""]
    /\ calls = [p \in Procs |-> <<>>]

\* ImageListing(body)
UnitConstruct(p) ==
    /\ pc[p] = "unit"
    /\ listing' = [listing EXCEPT ![p] = ImageListing(resp[p].body)]
    /\ Goto(p, "unit_built")
    /\ UNCHANGED <<env, fs, runs, apiKey, resp, saveName, out, exitCode, raised, calls>>

\* listing.save_name
UnitSaveName(p) ==
    /\ pc[p] = "unit_built"
    /\ saveName' = [saveName EXCEPT ![p] = save_name(listing[p])]
    /\ Goto(p, "unit_read")
    /\ UNCHANGED <<env, fs, runs, apiKey, resp, listing, out, exitCode, raised, calls>>

NextUnit == UnitConstruct(1) \/ UnitSaveName(1)

SpecUnit == InitUnit /\ [][NextUnit]_vars

\* ------------------------------------------------------------------------
\* Properties
\* ------------------------------------------------------------------------
HasKey(p, key) == key \in DOMAIN resp[p].body

\* The kinds of external effect invocation p has had so far.
Ops(p) == {calls[p][i].op : i \in DOMAIN calls[p]}
FsOps == {"mkdir", "write_bytes", "write_text", "symlink_to"}
CountOp(p, op) == Cardinality({i \in DOMAIN calls[p] : calls[p][i].op = op})

\* The metadata request of invocation p returned a body.
Received(p) == "GET_APOD" \in Ops(p) /\ ~resp[p].raised

\* ~/APOD/d exists but ~/Pictures/APOD/d does not.
Incomplete(d) == d \in dirs /\ ~(\E l \in links : l.name = d)

\* Invocation p is between its mkdir of d and its symlink.
InPersist(p, d) ==
    /\ pc[p] \in {"get_image", "write_image", "write_description", "symlink"}
    /\ saveName[p] = d

FilesIn(F, d) == {f \in F : f.dir = d}

\* The part of u after its last "/", the whole of u if it has none.
IsLastSegmentOf(seg, u) ==
    \E k \in 0..Len(u) :
       /\ k = 0 \/ u[k] = "/"
       /\ \A j \in (k + 1)..Len(u) : u[j] # "/"
       /\ seg = SubSeq(u, k + 1, Len(u))

\* C6: for a body with date and hdurl, save_name is the date, an underscore
\* and the last "/"-separated segment of hdurl; the 2024-01-01 / pic.jpg
\* example gives 2024-01-01_pic.jpg.
C6_SaveNameIsDateAndLastSegment ==
    (pc[1] = "unit_read" /\ HasKey(1, "date") /\ HasKey(1, "hdurl")) =>
       /\ \E seg \in {SubSeq(resp[1].body["hdurl"], k, Len(resp[1].body["hdurl"])) :
                         k \in 1..(Len(resp[1].body["hdurl"]) + 1)} :
             /\ IsLastSegmentOf(seg, resp[1].body["hdurl"])
             /\ saveName[1] = resp[1].body["date"] \o <<"_">> \o seg
       /\ (resp[1].body["date"] = ExampleDate /\ resp[1].body["hdurl"] = ExampleUrl)
             => saveName[1] = ExampleSaveName

\* The example body has been read.
C6_Witness ==
    /\ pc[1] = "unit_read"
    /\ HasKey(1, "hdurl")
    /\ resp[1].body["hdurl"] = ExampleUrl
    /\ saveName[1] = ExampleSaveName

\* C7 as stated: with an empty url, save_name is empty.
C7_EmptyUrlEmptySaveName ==
    (pc[1] = "unit_read" /\ listing[1].url = <<>>) => saveName[1] = <<>>

\* C7 amended: with an empty url (hdurl absent or empty), save_name is the
\* date followed by one underscore, so it is never empty.
C7_EmptyUrlSaveNameIsDateUnderscore ==
    (pc[1] = "unit_read" /\ listing[1].url = <<>>) =>
       /\ saveName[1] = listing[1].date \o <<"_">>
       /\ saveName[1] # <<>>

\* A listing built from a body without hdurl has been read.
C7_Witness ==
    /\ pc[1] = "unit_read"
    /\ ~HasKey(1, "hdurl")
    /\ listing[1].url = <<>>
    /\ Len(listing[1].date) > 0
    /\ saveName[1] = listing[1].date \o <<"_">>


\* C1: when the metadata body's media_type is not "image" (or is missing),
\* the invocation does no image GET, no filesystem write and no wallpaper
\* call, and it can only stop by exiting with status 1.
C1_NonImageNoDownload ==
    \A p \in Procs :
       (Received(p) /\ (HasKey(p, "media_type") => resp[p].body["media_type"] # "image")) =>
          /\ Ops(p) = {"GET_APOD"}
          /\ pc[p] \in {"check_media", "exited"}
          /\ pc[p] = "exited" => exitCode[p] = 1

\* A video day has been turned down.
C1_Witness ==
    /\ pc[1] = "exited"
    /\ Received(1)
    /\ HasKey(1, "media_type")
    /\ resp[1].body["media_type"] = "video"
    /\ out[1][Len(out[1])] = <<"Not an image today">>
    /\ exitCode[1] = 1

\* C2: when the save directory exists at the existence check, the invocation
\* has done and does no image GET, creates or overwrites nothing, and its
\* next two steps are the jump to the wallpaper call and the call itself.
C2_CacheHitSkipsDownload ==
    [][\A p \in Procs :
          /\ (pc[p] = "check_exists" /\ save_name(listing[p]) \in dirs /\ pc'[p] # pc[p]) =>
                /\ pc'[p] = "run"
                /\ Ops(p) = {"GET_APOD"}
                /\ calls'[p] = calls[p]
                /\ fs' = fs
          /\ (pc[p] = "run" /\ Ops(p) = {"GET_APOD"} /\ pc'[p] # pc[p]) =>
                /\ pc'[p] = "done"
                /\ calls'[p] = Append(calls[p], [op |-> "run", arg |-> save_name(listing[p])])
                /\ fs' = fs]_vars

\* A second invocation found the directory and went straight to the script.
C2_Witness ==
    /\ pc[1] = "done"
    /\ runs >= 2
    /\ saveName[1] \in dirs
    /\ Ops(1) = {"GET_APOD", "run"}

\* C3: after the download branch has completed, exactly one image file, one
\* description and one symlink were created and the symlink's target is the
\* image file written, so the symlink resolves.
C3_SymlinkTargetsImageFile ==
    \A p \in Procs :
       (pc[p] \in {"run", "done"} /\ "mkdir" \in Ops(p)) =>
          /\ CountOp(p, "write_bytes") = 1
          /\ CountOp(p, "write_text") = 1
          /\ CountOp(p, "symlink_to") = 1
          /\ \E i, j \in DOMAIN calls[p] :
                /\ calls[p][i].op = "write_bytes"
                /\ calls[p][j].op = "symlink_to"
                /\ calls[p][j].arg.target = calls[p][i].arg
          /\ Resolves(saveName[p])

\* C4: without an API key or without the wallpaper script, the invocation
\* makes no request and writes nothing, and it stops only by printing one
\* message and exiting with status 1.
C4_MissingPreconditionFailsFast ==
    \A p \in Procs :
       (pc[p] \notin {"idle", "unit", "unit_built", "unit_read"}
          /\ (apiKey[p] = "None" \/ ~scriptIsFile)) =>
          /\ calls[p] = <<>>
          /\ pc[p] \in {"check_key", "check_script", "exited"}
          /\ pc[p] = "exited" =>
                /\ exitCode[p] = 1
                /\ out[p] \in {<< <<"No API key provided">> >>,
                               << <<"Wallpaper setting script not found">> >>}

\* A key was given but the script is missing.
C4_Witness ==
    /\ pc[1] = "exited"
    /\ apiKey[1] = "KEY"
    /\ ~scriptIsFile
    /\ out[1] = << <<"Wallpaper setting script not found">> >>
    /\ calls[1] = <<>>

\* C5: when the metadata body has an "error" key, the fetch fails, the
\* printed failure carries error.code, and the invocation exits with status
\* 1 having done nothing but the metadata request.
C5_ErrorBodyFailsWithCode ==
    \A p \in Procs :
       (Received(p) /\ HasKey(p, "error")) =>
          /\ pc[p] = "exited"
          /\ exitCode[p] = 1
          /\ Ops(p) = {"GET_APOD"}
          /\ "code" \in DOMAIN resp[p].body["error"] =>
                \E i \in DOMAIN out[p] :
                   /\ out[p][i][1] = "Failed to get image listing: "
                   /\ \E j \in DOMAIN out[p][i] : out[p][i][j] = resp[p].body["error"]["code"]

\* An error body with a code was received.
C5_Witness ==
    /\ pc[1] = "exited"
    /\ Received(1)
    /\ HasKey(1, "error")
    /\ "code" \in DOMAIN resp[1].body["error"]
    /\ resp[1].body["error"]["code"] = "API_KEY_INVALID"

\* C8: the image GET comes before every side effect of the persistence
\* step, so a failed download leaves no save directory.
C8_DownloadBeforePersist ==
    \A p \in Procs :
       /\ \A i \in DOMAIN calls[p] :
             calls[p][i].op \in FsOps =>
                \E j \in 1..(i - 1) : calls[p][j].op = "GET_IMAGE"
       /\ raised[p] = "ConnectionError" => saveName[p] \notin dirs

\* C9: once a save directory is left without its symlink by an invocation
\* that has stopped, its files and the missing symlink never change again,
\* and a later invocation for that name goes from the existence check to the
\* wallpaper call with no download and no write.
C9_PartialStateNeverRepaired ==
    [][\A d \in dirs :
          (Incomplete(d) /\ ~InPersist(1, d)) =>
             /\ d \in dirs'
             /\ FilesIn(files', d) = FilesIn(files, d)
             /\ ~(\E l \in links' : l.name = d)
             /\ (pc[1] = "check_exists" /\ save_name(listing[1]) = d /\ pc'[1] # pc[1]) =>
                   pc'[1] = "run" /\ calls'[1] = calls[1]
             /\ (pc[1] = "run" /\ saveName[1] = d /\ pc'[1] # pc[1]) =>
                   /\ pc'[1] = "done"
                   /\ Ops(1) = {"GET_APOD"}
                   /\ calls'[1] = Append(calls[1], [op |-> "run", arg |-> d])]_vars

\* A later invocation called the script for a directory that holds no image
\* and has no symlink.
C9_Witness ==
    /\ pc[1] = "done"
    /\ runs >= 2
    /\ Incomplete(saveName[1])
    /\ FilesIn(files, saveName[1]) = {}
    /\ Ops(1) = {"GET_APOD", "run"}

\* C10: with overlapping invocations, one that aborts with FileExistsError
\* does so at mkdir, over a directory it saw absent and did not create; and
\* one that skipped the download did so over a directory that exists.
C10_AbortOnlyOverOthersDirectory ==
    \A p \in Procs :
       /\ raised[p] = "FileExistsError" =>
             /\ saveName[p] \in dirs
             /\ "mkdir" \notin Ops(p)
       /\ (pc[p] \in {"run", "done"} /\ "mkdir" \notin Ops(p)) => saveName[p] \in dirs

\* One invocation aborted at mkdir over the directory the other, still
\* between mkdir and symlink, had created since the first one's check.
C10_Witness ==
    \E p, q \in Procs :
       /\ p # q
       /\ raised[p] = "FileExistsError"
       /\ InPersist(q, saveName[p])
       /\ "mkdir" \in Ops(q)

====
